---- MODULE Spec2Model ----
(***************************************************************************)
(* Model of the encode jobs of the klmToVideo server:                      *)
(*   VideoOverlay (lib/videoOverlay.ts)  -> EncodeVideoWorker              *)
(*   (workers/encodeVideoWorker.ts) -> job registry, SSE observers and     *)
(*   persisted video metadata (server/src/index.ts, workspace.ts).         *)
(*                                                                         *)
(* Node runs one callback to completion before the next I/O callback, so   *)
(* every action below is one such callback.  The events a callback makes   *)
(* the worker emit are put in wQueue and handled one by one by the         *)
(* registry's listeners (OnWorkerLog, ...) before any other callback runs. *)
(* Percents are in hundredths of a percent (5% = 500).                     *)
(*                                                                         *)
(* Specifications:                                                         *)
(*   Spec         one job with at most the speedometer layer, one SSE      *)
(*                client, DELETE requests                                  *)
(*   LayerSpec    one job with any subset of the three overlay layers      *)
(*   PoolSpec     several jobs side by side and the temporary paths they   *)
(*                hold                                                     *)
(*   ProgressSpec the progress listener of the encode step on any report   *)
(*   TrackSpec    the position and speed lookups on any track              *)
(*   ParseSpec    the pairing of timestamps and coordinates by the parsers *)
(*   EntrySpec    LayerSpec preceded by the POST /api/encode request       *)
(*   GaugeSpec    the needle of the speed gauge for any speed              *)
(*   PanelSpec    the frames of the info panel for any options and track   *)
(*   FanoutSpec   one job followed by two SSE clients, no DELETE request   *)
(*   WorkerSpec   one EncodeWorker with the processes it spawned           *)
(*   RaceSpec     one job, meta.json read and written in separate steps    *)
(*   CancelSpec   one job with DELETE requests, callbacks run eventually   *)
(*   StartSpec    start() called several times on one VideoOverlay         *)
(***************************************************************************)
EXTENDS Integers, Sequences, FiniteSets, Bags, TLC

\* ---------------------------------------------------------------- bounds
MaxFrames == 1
MaxReports == 2
MaxStops == 2
MaxJobs == 4
MaxClock == 1
MaxRawPercent == 120
MaxSamples == 3
MaxStamp == 4
MaxQuery == 4
MaxWhens == 3
MaxCoords == 3
MaxRuns == 2
MaxEmitted == 3
MaxSimSteps == 2
MaxStarts == 3

\* SSE clients; a client whose state is "off" never connects
Observers == {"c1", "c2"}

\* ------------------------------------------------------------- constants
StopCleanupMs == 5000
DoneCleanupMs == 30000
\* period of the overlay frames (fps = 5); track times are counted in it
TickMs == 200

VARIABLES
  opts,        \* VideoOverlay.options: showSpeed, hasInfoOverlay, showMap
  pc,          \* position of VideoOverlay.start()/encodeWithOverlay()
  layer,       \* overlay layer being generated
  frame,       \* frames written for that layer
  clipPaths,   \* layers whose ...VideoPath local is set
  framesDirs,  \* layers whose frames directory exists in os.tmpdir()
  leftClips,   \* layers whose clip file exists in os.tmpdir() although
               \* its ...VideoPath local was never set
  voStopped,   \* VideoOverlay.stopped
  command,     \* VideoOverlay.command is set
  cmdInputs,   \* the inputs given to this.command, in order (index 0 first)
  cmdFilters,  \* the complexFilter given to this.command
  proc,        \* the ffmpeg process behind this.command
  reports,     \* encoder callbacks (progress, stderr) delivered so far
  wStopped,    \* EncodeVideoWorker.stopped
  wEncoder,    \* EncodeVideoWorker.encoder is set
  wQueue,      \* worker events being dispatched to the registry listeners
  jobPresent,  \* jobs.has(job.id)
  jobStatus,   \* job.status
  timers,      \* delays for which a setTimeout(() => jobs.delete(job.id),
               \* delay) is pending (jobs.delete is idempotent, so a second
               \* pending timer of the same delay changes nothing)
  jobEvents,   \* every event emitted on job.emitter, in order
  obsState,    \* per SSE client: off / none / attached / notfound (404)
  received,    \* per SSE client: the events written to its response
  attachedAt,  \* per SSE client: Len(jobEvents) when it connected
  metaStatus,  \* encodeStatus of the video in meta.json
  metaOps,     \* bag of setVideoEncodeStatus calls in flight
  metaReads,   \* those of them that have read meta.json and not yet
               \* written it back, with the encodeStatus they read
  stops,       \* DELETE requests made so far
  lastDelete,  \* HTTP status of the last DELETE response (0: none yet)
  cancelled,   \* a DELETE was accepted while job.status was "running"
  obsAtStop,   \* the SSE clients connected when that DELETE was accepted
  pool,        \* several jobs side by side: per job its stage and the
               \* temporary paths it holds
  clock,       \* Date.now() as the jobs of the pool read it
  call,        \* arguments of the function call under examination
  ret,         \* its result
  ew,          \* an EncodeWorker: status, proc, lastPercent, simIntervalHandle,
               \* simStep
  ewProcs,     \* the processes it spawned: none / alive / failed / closed
  ewEmitted,   \* the progress, done and error events it emitted since the
               \* last start() that began a run
  overlay      \* a VideoOverlay on which start() is called several times:
               \* options, this.command, the stage of each call

vars == <<opts, pc, layer, frame, clipPaths, framesDirs, leftClips,
          voStopped, command, cmdInputs, cmdFilters, proc, reports,
          wStopped, wEncoder, wQueue, jobPresent, jobStatus, timers, jobEvents,
          obsState, received, attachedAt, metaStatus, metaOps, stops,
          lastDelete, cancelled, obsAtStop, pool, clock, call, ret,
          ew, ewProcs, ewEmitted, metaReads, overlay>>

voVars == <<pc, layer, frame, clipPaths, voStopped, command, proc, reports>>
tmpVars == <<framesDirs, leftClips>>
cmdVars == <<cmdInputs, cmdFilters>>
regVars == <<jobPresent, jobStatus, timers>>
obsVars == <<obsState, received, attachedAt>>
metaVars == <<metaStatus, metaOps, metaReads>>
reqVars == <<stops, lastDelete, cancelled, obsAtStop>>
jobVars == <<opts, voVars, tmpVars, cmdVars, wStopped, wEncoder, wQueue,
             regVars, jobEvents, obsVars, metaVars, reqVars>>
poolVars == <<pool, clock>>
callVars == <<call, ret>>
ewVars == <<ew, ewProcs, ewEmitted>>
sideVars == <<poolVars, callVars, ewVars, overlay>>

\* ---------------------------------------------------------------- events
NoPercent == -1
NoExit == -1

Ev(t, p, s, x, m) ==
  [type |-> t, percent |-> p, success |-> s, exitCode |-> x, msg |-> m]
Progress(p) == Ev("progress", p, FALSE, NoExit, "")
Log(m) == Ev("log", NoPercent, FALSE, NoExit, m)
Done(s) == Ev("done", NoPercent, s, IF s THEN 0 ELSE 1, "")
Error(m) == Ev("error", NoPercent, FALSE, NoExit, m)

IsTerminal(e) == e.type \in {"done", "error"}

Pct(n) == n * 100

Min(a, b) == IF a < b THEN a ELSE b

\* encodeWithOverlay's progress listener: progress.percent || 0, mapped
RawReports == {[has |-> FALSE, v |-> 0], [has |-> TRUE, v |-> 40],
               [has |-> TRUE, v |-> 100]}
RawPercent(r) == IF r.has THEN r.v ELSE 0
\* (a listener that reports the encoder's percent as the job's)
MappedPercentOfJob(raw) == Pct(raw)

MappedPercent(raw) == Pct(20) + raw * 75
ReportedPercent(r) == Min(Pct(95), MappedPercent(RawPercent(r)))

\* EncodeVideoWorker's listeners on the encoder: done is always forwarded,
\* progress, log and error only while the worker is not stopped
WForward(evs, stopped) ==
  SelectSeq(evs, LAMBDA e : e.type = "done" \/ ~stopped)

HasDone(evs) == \E i \in 1..Len(evs) : evs[i].type = "done"

\* VideoOverlay.start's catch block, then EncodeVideoWorker.start's .catch
StartCatch == <<Error("failed"), Done(FALSE)>>
WorkerCatch == <<Error("failed"), Done(FALSE)>>

\* what a callback that makes the encoder emit evs and the worker itself
\* emit extra does to the worker and to the dispatch queue
Emit(evs, extra) ==
  /\ wQueue' = WForward(evs, wStopped) \o extra
  /\ wEncoder' = IF HasDone(evs) THEN FALSE ELSE wEncoder

Quiet == wQueue = <<>>

\* ----------------------------------------------------- overlay stages
HasClip(l, o) ==
  CASE l = "speed" -> o.showSpeed
    [] l = "info" -> o.hasInfoOverlay
    [] l = "map" -> o.showMap

LayerOrder == <<"speed", "info", "map">>

RECURSIVE FirstEnabledFrom(_, _)
FirstEnabledFrom(i, o) ==
  IF i > Len(LayerOrder) THEN "none"
  ELSE IF HasClip(LayerOrder[i], o) THEN LayerOrder[i]
  ELSE FirstEnabledFrom(i + 1, o)

LayerIndex(l) == CHOOSE i \in 1..Len(LayerOrder) : LayerOrder[i] = l

\* (an encodeWithOverlay that generates the first enabled layer only)
NextLayerOnce(l, o) ==
  IF l = "none" THEN FirstEnabledFrom(1, o) ELSE "none"

\* the layer encodeWithOverlay generates after l ("none": build the command)
NextLayer(l, o) ==
  IF l = "none" THEN FirstEnabledFrom(1, o)
  ELSE FirstEnabledFrom(LayerIndex(l) + 1, o)

AddingLogs(clips) ==
  (IF "speed" \in clips THEN <<Log("adding speedometer")>> ELSE <<>>) \o
  (IF "info" \in clips THEN <<Log("adding info")>> ELSE <<>>) \o
  (IF "map" \in clips THEN <<Log("adding map")>> ELSE <<>>)

\* the inputs of the command: the video, then the clips that exist
CommandInputs(clips) ==
  <<"video">> \o
  (IF "speed" \in clips THEN <<"speed">> ELSE <<>>) \o
  (IF "info" \in clips THEN <<"info">> ELSE <<>>) \o
  (IF "map" \in clips THEN <<"map">> ELSE <<>>)

\* filter labels: [0:v], [tmpN], and the empty output label
MainVideo == [kind |-> "input", n |-> 0]
Tmp(n) == [kind |-> "tmp", n |-> n]
NoLabel == [kind |-> "none", n |-> 0]

OverlayPos(l) ==
  CASE l = "speed" -> "main_w-overlay_w-10:main_h-overlay_h-10"
    [] l = "info" -> "10:main_h-overlay_h-10"
    [] l = "map" -> "main_w-overlay_w-10:10"

\* `${currentInput}[${filterIndex}:v]overlay=${overlayPos}${outputLabel}`
OverlayFilter(currentInput, filterIndex, overlayPos, outputLabel) ==
  [main |-> currentInput, overlay |-> filterIndex, pos |-> overlayPos,
   out |-> outputLabel]

\* (a filterIndex that is not incremented)
SameFilterIndex(filterIndex) == filterIndex

\* filterIndex after a filter was pushed
NextFilterIndex(filterIndex) == filterIndex + 1

\* the three `if (...VideoPath)` blocks that push the overlay filters
RECURSIVE BuildFilters(_, _, _, _, _)
BuildFilters(i, clips, currentInput, filterIndex, filters) ==
  IF i > Len(LayerOrder) THEN filters
  ELSE IF LayerOrder[i] \notin clips
  THEN BuildFilters(i + 1, clips, currentInput, filterIndex, filters)
  ELSE LET later == \E k \in (i + 1)..Len(LayerOrder) : LayerOrder[k] \in clips
           outputLabel == IF later THEN Tmp(filterIndex) ELSE NoLabel
       IN  BuildFilters(i + 1, clips, Tmp(filterIndex),
                        NextFilterIndex(filterIndex),
                        Append(filters,
                               OverlayFilter(currentInput, filterIndex,
                                             OverlayPos(LayerOrder[i]),
                                             outputLabel)))

CommandFilters(clips) ==
  IF clips = {} THEN <<>> ELSE BuildFilters(1, clips, MainVideo, 1, <<>>)

\* encodeWithOverlay after the layer before `next` is ready: either call
\* the next generate...Video() or build the ffmpeg command and run() it
Advance(next, clips, evs) ==
  IF next # "none"
  THEN /\ pc' = "import"
       /\ layer' = next
       /\ frame' = 0
       /\ UNCHANGED <<command, proc, cmdVars>>
       /\ Emit(evs \o <<Log("generating overlay")>>, <<>>)
  ELSE /\ pc' = "encoding"
       /\ layer' = "none"
       /\ frame' = 0
       /\ command' = TRUE
       /\ cmdInputs' = CommandInputs(clips)
       /\ cmdFilters' = CommandFilters(clips)
       /\ proc' = "running"
       /\ Emit(evs \o AddingLogs(clips) \o <<Log("starting ffmpeg")>>, <<>>)

\* ------------------------------------------------------------------ Init
\* POST /api/encode has run: the job is registered, meta.json says
\* "running", EncodeVideoWorker.start() and VideoOverlay.start() have run
\* up to the ffprobe call.
StartEvents ==
  <<Log("starting video encoding"), Progress(Pct(5)), Log("using pre-parsed"),
    Log("loaded"), Log("sorted"), Progress(Pct(10))>>

InitJob(optionSets, clients) ==
  /\ opts \in optionSets
  /\ pc = "probing"
  /\ layer = "none"
  /\ frame = 0
  /\ clipPaths = {}
  /\ framesDirs = {}
  /\ leftClips = {}
  /\ voStopped = FALSE
  /\ command = FALSE
  /\ cmdInputs = <<>>
  /\ cmdFilters = <<>>
  /\ proc = "none"
  /\ reports = 0
  /\ wStopped = FALSE
  /\ wEncoder = TRUE
  /\ wQueue = StartEvents
  /\ jobPresent = TRUE
  /\ jobStatus = "running"
  /\ timers = {}
  /\ jobEvents = <<>>
  /\ obsState = [o \in Observers |-> IF o \in clients THEN "none" ELSE "off"]
  /\ received = [o \in Observers |-> <<>>]
  /\ attachedAt = [o \in Observers |-> 0]
  /\ metaStatus = "running"
  /\ metaOps = EmptyBag
  /\ metaReads = EmptyBag
  /\ stops = 0
  /\ lastDelete = 0
  /\ cancelled = FALSE
  /\ obsAtStop = {}

\* ------------------------------------------------------ several jobs
JobIds == 1..MaxJobs
NoPath == <<>>

PoolIdle ==
  /\ pool = [j \in JobIds |-> [st |-> "none", dir |-> NoPath, clip |-> NoPath]]
  /\ clock = 0

NoCall == call = <<>> /\ ret = <<>>

\* --------------------------------------------- a VideoOverlay instance
StartIds == 1..MaxStarts

\* new VideoOverlay(options): no command, start() not called yet
NewOverlay(layers) ==
  [layers |-> layers, command |-> FALSE, calls |-> [c \in StartIds |-> "none"]]

OverlayIdle == overlay = NewOverlay(FALSE)

\* ------------------------------------------------------ an EncodeWorker
ProcIds == 1..MaxRuns

\* new EncodeWorker(options): status idle, no process, no interval
NewWorker(simulate) ==
  [simulate |-> simulate, status |-> "idle", proc |-> 0, lastPercent |-> 0,
   simIntervalHandle |-> FALSE, simStep |-> 0]

NoProcs == [p \in ProcIds |-> "none"]

WorkerIdle == ew = NewWorker(FALSE) /\ ewProcs = NoProcs /\ ewEmitted = <<>>

\* a job with at most the speedometer layer, watched by one SSE client
Init ==
  /\ InitJob([showSpeed : BOOLEAN, hasInfoOverlay : {FALSE},
              showMap : {FALSE}], {"c1"})
  /\ PoolIdle /\ WorkerIdle /\ OverlayIdle
  /\ NoCall

\* ------------------------------------------- registry listeners (index.ts)
MetaOp(status, cleanup) == [status |-> status, cleanup |-> cleanup]

PublishToOne(e) ==
  /\ jobEvents' = Append(jobEvents, e)
  /\ received' = [o \in Observers |->
       IF obsState[o] = "attached" /\ o = "c1"
       THEN Append(received[o], e) ELSE received[o]]

\* job.emitter.emit("event", e): every listener writes e to its response
Publish(e) ==
  /\ jobEvents' = Append(jobEvents, e)
  /\ received' = [o \in Observers |->
       IF obsState[o] = "attached" THEN Append(received[o], e) ELSE received[o]]

DoneStatus == "done"

OnWorkerLog ==
  /\ wQueue # <<>> /\ Head(wQueue).type = "log"
  /\ wQueue' = Tail(wQueue)
  /\ Publish(Head(wQueue))
  /\ UNCHANGED <<sideVars, cmdVars, opts, tmpVars, voVars, wStopped, wEncoder,
                 regVars, obsState, attachedAt, metaVars, reqVars>>

OnWorkerProgress ==
  /\ wQueue # <<>> /\ Head(wQueue).type = "progress"
  /\ wQueue' = Tail(wQueue)
  /\ Publish(Head(wQueue))
  /\ metaOps' = metaOps (+) SetToBag({MetaOp("none", FALSE)})
  /\ UNCHANGED <<sideVars, metaReads, cmdVars, opts, tmpVars, voVars,
                 wStopped, wEncoder, regVars, obsState, attachedAt,
                 metaStatus, reqVars>>

OnWorkerDone ==
  /\ wQueue # <<>> /\ Head(wQueue).type = "done"
  /\ wQueue' = Tail(wQueue)
  /\ jobStatus' = DoneStatus
  /\ Publish(Head(wQueue))
  /\ metaOps' = metaOps (+)
       SetToBag({MetaOp(IF Head(wQueue).success THEN "done" ELSE "error",
                        TRUE)})
  /\ UNCHANGED <<sideVars, metaReads, cmdVars, opts, tmpVars, voVars,
                 wStopped, wEncoder, jobPresent, timers, obsState,
                 attachedAt, metaStatus, reqVars>>

OnWorkerError ==
  /\ wQueue # <<>> /\ Head(wQueue).type = "error"
  /\ wQueue' = Tail(wQueue)
  /\ jobStatus' = "error"
  /\ Publish(Head(wQueue))
  /\ metaOps' = metaOps (+) SetToBag({MetaOp("error", TRUE)})
  /\ UNCHANGED <<sideVars, metaReads, cmdVars, opts, tmpVars, voVars,
                 wStopped, wEncoder, jobPresent, timers, obsState,
                 attachedAt, metaStatus, reqVars>>

\* ------------------------------------------------ workspace.ts meta.json
\* encodeStatus after setVideoEncodeStatus(update) on a file holding `cur`
Patched(cur, status) == IF status # "none" THEN status ELSE cur

\* one setVideoEncodeStatus call completes (readMeta, patch, writeMeta, not
\* interleaved with another call's); the listener awaiting it resumes and
\* schedules the registry cleanup
MetaApply ==
  /\ Quiet
  /\ \E op \in BagToSet(metaOps) :
       /\ metaOps' = metaOps (-) SetToBag({op})
       /\ metaStatus' = Patched(metaStatus, op.status)
       /\ timers' = IF op.cleanup THEN timers \cup {DoneCleanupMs} ELSE timers
  /\ UNCHANGED <<sideVars, metaReads, cmdVars, opts, tmpVars, voVars,
                 wStopped, wEncoder, wQueue, jobPresent, jobStatus,
                 jobEvents, obsVars, reqVars>>

\* setTimeout(() => jobs.delete(job.id), delay) fires
TimerFire ==
  /\ Quiet
  /\ \E d \in timers : timers' = timers \ {d}
  /\ jobPresent' = FALSE
  /\ UNCHANGED <<sideVars, cmdVars, opts, tmpVars, voVars, wStopped, wEncoder,
                 wQueue, jobStatus, jobEvents, obsVars, metaVars, reqVars>>

\* ------------------------------------------------ VideoOverlay callbacks
\* ffprobe answered: start() goes on into encodeWithOverlay()
ProbeOk ==
  /\ Quiet /\ pc = "probing"
  /\ Advance(NextLayer("none", opts), clipPaths,
             <<Log("video duration"), Log("kml offset"), Progress(Pct(15))>>)
  /\ UNCHANGED <<sideVars, opts, tmpVars, clipPaths, voStopped, reports,
                 wStopped, regVars, jobEvents, obsVars, metaVars, reqVars>>

\* ffprobe failed: start()'s catch, then the worker's .catch
ProbeFail ==
  /\ Quiet /\ pc = "probing"
  /\ pc' = "settled"
  /\ Emit(StartCatch, WorkerCatch)
  /\ UNCHANGED <<sideVars, cmdVars, opts, tmpVars, layer, frame, clipPaths,
                 voStopped, command, proc, reports, wStopped, regVars,
                 jobEvents, obsVars, metaVars, reqVars>>

\* generate...Video(): canvas imported, frames directory created (the three
\* generators share this shape; none of them reads the stopped flag)
RenderBegin ==
  /\ Quiet /\ pc = "import"
  /\ pc' = IF MaxFrames = 0 THEN "clip" ELSE "frames"
  /\ framesDirs' = framesDirs \cup {layer}
  /\ Emit(<<Log("generating animated overlay")>> \o
          (IF MaxFrames = 0 THEN <<Log("generated frames")>> ELSE <<>>), <<>>)
  /\ UNCHANGED <<sideVars, cmdVars, opts, leftClips, layer, frame, clipPaths,
                 voStopped, command, proc, reports, wStopped, regVars,
                 jobEvents, obsVars, metaVars, reqVars>>

\* one frame written; after the last one the clip-building ffmpeg is run
RenderFrame ==
  /\ Quiet /\ pc = "frames" /\ frame < MaxFrames
  /\ frame' = frame + 1
  /\ IF frame + 1 = MaxFrames
     THEN /\ pc' = "clip"
          /\ Emit(<<Log("generated frames")>>, <<>>)
     ELSE /\ pc' = pc
          /\ UNCHANGED <<wQueue, wEncoder>>
  /\ UNCHANGED <<sideVars, cmdVars, opts, tmpVars, layer, clipPaths,
                 voStopped, command, proc, reports, wStopped, regVars,
                 jobEvents, obsVars, metaVars, reqVars>>

\* the clip is built: frames removed, path returned to encodeWithOverlay
ClipOk ==
  /\ Quiet /\ pc = "clip"
  /\ clipPaths' = clipPaths \cup {layer}
  /\ framesDirs' = framesDirs \ {layer}
  /\ Advance(NextLayer(layer, opts), clipPaths \cup {layer},
             <<Log("overlay video created"), Log("overlay ready")>>)
  /\ UNCHANGED <<sideVars, opts, leftClips, voStopped, reports, wStopped,
                 regVars, jobEvents, obsVars, metaVars, reqVars>>

\* an await inside generate...Video() throws: encodeWithOverlay's catch,
\* start()'s catch, the worker's .catch.  The catch unlinks the clips whose
\* path was returned; the frames directory of the layer being generated is
\* removed only after its clip was built, and a clip file the failing
\* clip-building ffmpeg (or the frames cleanup after it) leaves behind has
\* no path recorded in encodeWithOverlay
LayerFail ==
  /\ Quiet /\ pc \in {"import", "frames", "clip"}
  /\ pc' = "settled"
  /\ clipPaths' = {}
  /\ leftClips' \in (IF pc = "clip" THEN {leftClips, leftClips \cup {layer}}
                     ELSE {leftClips})
  /\ Emit(<<Error("failed")>> \o StartCatch, WorkerCatch)
  /\ UNCHANGED <<sideVars, cmdVars, opts, framesDirs, layer, frame, voStopped,
                 command, proc, reports, wStopped, regVars, jobEvents,
                 obsVars, metaVars, reqVars>>

\* command.on("progress")
EncoderProgress ==
  /\ Quiet /\ pc = "encoding" /\ proc = "running" /\ reports < MaxReports
  /\ reports' = reports + 1
  /\ \E r \in RawReports :
       IF voStopped
       THEN UNCHANGED <<wQueue, wEncoder>>
       ELSE Emit(<<Progress(ReportedPercent(r))>>, <<>>)
  /\ UNCHANGED <<sideVars, cmdVars, opts, tmpVars, pc, layer, frame,
                 clipPaths, voStopped, command, proc, wStopped, regVars,
                 jobEvents, obsVars, metaVars, reqVars>>

\* command.on("stderr")
EncoderStderr ==
  /\ Quiet /\ pc = "encoding" /\ proc = "running" /\ reports < MaxReports
  /\ reports' = reports + 1
  /\ Emit(<<Ev("log", NoPercent, FALSE, NoExit, "stderr")>>, <<>>)
  /\ UNCHANGED <<sideVars, cmdVars, opts, tmpVars, pc, layer, frame,
                 clipPaths, voStopped, command, proc, wStopped, regVars,
                 jobEvents, obsVars, metaVars, reqVars>>

\* the ffmpeg process exits by itself; its end/error callback is pending
EncoderExit ==
  /\ Quiet /\ pc = "encoding" /\ proc = "running"
  /\ proc' \in {"exitedOk", "exitedErr"}
  /\ UNCHANGED <<sideVars, cmdVars, opts, tmpVars, pc, layer, frame,
                 clipPaths, voStopped, command, reports, wStopped, wEncoder,
                 wQueue, regVars, jobEvents, obsVars, metaVars, reqVars>>

\* (an end listener that reports the cap of the encode step)
CompletePercentAsCap == Pct(95)

\* the percent of "Encoding complete!"
CompletePercent == Pct(100)

\* command.on("end")
EncoderEnd ==
  /\ Quiet /\ pc = "encoding" /\ proc = "exitedOk"
  /\ proc' = "reaped"
  /\ pc' = "settled"
  /\ clipPaths' = {}
  /\ IF voStopped
     THEN Emit(<<Log("Encoding stopped")>>, <<>>)
     ELSE Emit(<<Progress(CompletePercent), Done(TRUE), Log("video saved")>>,
               <<>>)
  /\ UNCHANGED <<sideVars, cmdVars, opts, tmpVars, layer, frame, voStopped,
                 command, reports, wStopped, regVars, jobEvents, obsVars,
                 metaVars, reqVars>>

\* command.on("error"): the process failed or was killed
EncoderError ==
  /\ Quiet /\ pc = "encoding" /\ proc \in {"exitedErr", "killed"}
  /\ proc' = "reaped"
  /\ pc' = "settled"
  /\ clipPaths' = {}
  /\ IF voStopped
     THEN Emit(<<Log("Encoding stopped")>>, <<>>)
     ELSE Emit(<<Error("failed"), Done(FALSE)>> \o StartCatch, WorkerCatch)
  /\ UNCHANGED <<sideVars, cmdVars, opts, tmpVars, layer, frame, voStopped,
                 command, reports, wStopped, regVars, jobEvents, obsVars,
                 metaVars, reqVars>>

\* ------------------------------------------------------- HTTP handlers
\* VideoOverlay.stop(): kill() reaches only a process that still runs
KillProc(p) == IF p = "running" THEN "killed" ELSE p

\* (a DELETE handler that records a stopped job as failed)
StopStatusAsError == "error"

\* job.status as DELETE leaves it
StopStatus == "done"

\* DELETE /api/encode/:jobId -> EncodeVideoWorker.stop() -> VideoOverlay.stop()
\* (job.worker is set as soon as the job is started and never cleared, so
\* the 400 "no running worker to stop" answer is not reachable here)
DeleteJob ==
  /\ Quiet /\ stops < MaxStops
  /\ stops' = stops + 1
  /\ IF ~jobPresent
     THEN /\ lastDelete' = 404
          /\ UNCHANGED <<voStopped, proc, wStopped, wQueue, jobStatus, timers,
                         cancelled, obsAtStop>>
     ELSE /\ lastDelete' = 202
          /\ wStopped' = TRUE
          /\ voStopped' = (voStopped \/ wEncoder)
          /\ proc' = IF wEncoder /\ command THEN KillProc(proc) ELSE proc
          /\ wQueue' = IF wEncoder THEN <<Log("EncodeVideoWorker stopped")>>
                       ELSE <<>>
          /\ jobStatus' = StopStatus
          /\ timers' = timers \cup {StopCleanupMs}
          /\ cancelled' = (cancelled \/ jobStatus = "running")
          /\ obsAtStop' = IF ~cancelled /\ jobStatus = "running"
                          THEN {o \in Observers : obsState[o] = "attached"}
                          ELSE obsAtStop
  /\ UNCHANGED <<sideVars, cmdVars, opts, tmpVars, pc, layer, frame,
                 clipPaths, command, reports, wEncoder, jobPresent, jobEvents,
                 obsVars, metaVars>>

\* what GET /api/encode/events/:jobId sends for the current job.status
Replay(status) ==
  IF status = "done" THEN <<Ev("done", NoPercent, TRUE, NoExit, "")>>
  ELSE IF status = "error" THEN <<Error("job in error state")>>
  ELSE <<>>

\* GET /api/encode/events/:jobId
AttachObserver(o) ==
  /\ Quiet /\ obsState[o] = "none"
  /\ attachedAt' = [attachedAt EXCEPT ![o] = Len(jobEvents)]
  /\ IF ~jobPresent
     THEN /\ obsState' = [obsState EXCEPT ![o] = "notfound"]
          /\ UNCHANGED received
     ELSE /\ obsState' = [obsState EXCEPT ![o] = "attached"]
          /\ received' = [received EXCEPT ![o] = Replay(jobStatus)]
  /\ UNCHANGED <<sideVars, cmdVars, opts, tmpVars, voVars, wStopped, wEncoder,
                 wQueue, regVars, jobEvents, metaVars, reqVars>>

Next ==
  \/ OnWorkerLog \/ OnWorkerProgress \/ OnWorkerDone \/ OnWorkerError
  \/ MetaApply \/ TimerFire
  \/ ProbeOk \/ ProbeFail
  \/ RenderBegin \/ RenderFrame \/ ClipOk \/ LayerFail
  \/ EncoderProgress \/ EncoderStderr \/ EncoderExit
  \/ EncoderEnd \/ EncoderError
  \/ DeleteJob
  \/ \E o \in Observers : AttachObserver(o)

Spec == Init /\ [][Next]_vars

\* =================================================================
\* One job with any subset of the overlay layers and no SSE client
\* =================================================================
AllOptions ==
  [showSpeed : BOOLEAN, hasInfoOverlay : BOOLEAN, showMap : BOOLEAN]

LayerInit ==
  /\ InitJob(AllOptions, {})
  /\ PoolIdle /\ WorkerIdle /\ OverlayIdle /\ NoCall

LayerNext ==
  \/ OnWorkerLog \/ OnWorkerProgress \/ OnWorkerDone \/ OnWorkerError
  \/ MetaApply \/ TimerFire
  \/ ProbeOk \/ ProbeFail
  \/ RenderBegin \/ RenderFrame \/ ClipOk \/ LayerFail
  \/ EncoderProgress \/ EncoderStderr \/ EncoderExit
  \/ EncoderEnd \/ EncoderError
  \/ DeleteJob

LayerSpec == LayerInit /\ [][LayerNext]_vars

\* =================================================================
\* One encode request from its arrival on, for a workspace whose
\* kmlSummary holds any number of coordinates
\* =================================================================
EntryOptions ==
  [showSpeed : BOOLEAN, hasInfoOverlay : {FALSE}, showMap : BOOLEAN,
   coords : 0..MaxCoords]

\* the request has arrived; no job is registered yet
EntryInit ==
  /\ opts \in EntryOptions
  /\ pc = "request"
  /\ layer = "none" /\ frame = 0
  /\ clipPaths = {} /\ framesDirs = {} /\ leftClips = {}
  /\ voStopped = FALSE /\ command = FALSE
  /\ cmdInputs = <<>> /\ cmdFilters = <<>>
  /\ proc = "none" /\ reports = 0
  /\ wStopped = FALSE /\ wEncoder = FALSE /\ wQueue = <<>>
  /\ jobPresent = FALSE /\ jobStatus = "none" /\ timers = {}
  /\ jobEvents = <<>>
  /\ obsState = [o \in Observers |-> "off"]
  /\ received = [o \in Observers |-> <<>>]
  /\ attachedAt = [o \in Observers |-> 0]
  /\ metaStatus = "none" /\ metaOps = EmptyBag /\ metaReads = EmptyBag
  /\ stops = 0 /\ lastDelete = 0 /\ cancelled = FALSE /\ obsAtStop = {}
  /\ PoolIdle /\ WorkerIdle /\ OverlayIdle /\ NoCall

\* (a check that finds coordinates in every summary)
NeverEmpty(n) == FALSE

\* kmlSummary.coords.length === 0, this.kmlCoords.length === 0
NoCoordinates(n) == n = 0

\* POST /api/encode: 400 for a workspace without KML data; otherwise the job
\* is registered, meta.json says "running", and EncodeVideoWorker.start()
\* and VideoOverlay.start() run up to the ffprobe call (start() throws
\* "No coordinates found in KML summary" itself for an empty coords array)
PostEncode ==
  /\ pc = "request"
  /\ IF NoCoordinates(opts.coords)
     THEN /\ pc' = "rejected"
          /\ UNCHANGED <<wEncoder, wQueue, jobPresent, jobStatus, metaStatus>>
     ELSE /\ jobPresent' = TRUE
          /\ jobStatus' = "running"
          /\ metaStatus' = "running"
          /\ IF NoCoordinates(opts.coords)
             THEN /\ pc' = "settled"
                  /\ wEncoder' = FALSE
                  /\ wQueue' = <<Log("starting video encoding"),
                                 Progress(Pct(5)), Log("using pre-parsed")>>
                               \o StartCatch \o WorkerCatch
             ELSE /\ pc' = "probing"
                  /\ wEncoder' = TRUE
                  /\ wQueue' = StartEvents
  /\ UNCHANGED <<sideVars, metaReads, cmdVars, opts, tmpVars, layer, frame,
                 clipPaths, voStopped, command, proc, reports, wStopped,
                 timers, jobEvents, obsVars, metaOps, reqVars>>

EntryNext ==
  \/ PostEncode
  \/ OnWorkerLog \/ OnWorkerProgress \/ OnWorkerDone \/ OnWorkerError
  \/ MetaApply \/ TimerFire
  \/ ProbeOk \/ ProbeFail
  \/ RenderBegin \/ RenderFrame \/ ClipOk \/ LayerFail
  \/ EncoderProgress \/ EncoderStderr \/ EncoderExit
  \/ EncoderEnd \/ EncoderError
  \/ DeleteJob

EntrySpec == EntryInit /\ [][EntryNext]_vars

\* =================================================================
\* Several jobs in one server process (each with the speedometer layer)
\* =================================================================
\* the single-job variables are not exercised by the specifications below
ParkedJob ==
  InitJob({[showSpeed |-> FALSE, hasInfoOverlay |-> FALSE, showMap |-> FALSE]},
          {})

PoolInit == ParkedJob /\ PoolIdle /\ WorkerIdle /\ OverlayIdle /\ NoCall

Stage(j) == pool[j].st

\* the value of Math.random().toString(36).slice(2) in job j's call: the
\* draws of the process's generator are taken to be pairwise different
RandomSuffix(j) == j

\* os.tmpdir()/speedometer_frames_${Date.now()}_${random}
FramesDirName(now, suffix) == <<"speedometer_frames", now, suffix>>

\* os.tmpdir()/speedometer_video_${Date.now()}.mov
ClipName(now) == <<"speedometer_video", now>>

\* POST /api/encode: the job is registered and its worker started at once
\* (uuids are taken in the order 1, 2, ...)
Submit(j) ==
  /\ Stage(j) = "none"
  /\ \A i \in JobIds : i < j => Stage(i) # "none"
  /\ pool' = [pool EXCEPT ![j].st = "starting"]
  /\ UNCHANGED <<clock, jobVars, callVars, ewVars, overlay>>

\* a millisecond passes
Tick ==
  /\ clock < MaxClock
  /\ clock' = clock + 1
  /\ UNCHANGED <<pool, jobVars, callVars, ewVars, overlay>>

\* generateSpeedometerVideo creates its frames directory
PoolMkdir(j) ==
  /\ Stage(j) = "starting"
  /\ pool' = [pool EXCEPT ![j].st = "frames",
                          ![j].dir = FramesDirName(clock, RandomSuffix(j))]
  /\ UNCHANGED <<clock, jobVars, callVars, ewVars, overlay>>

\* the frames are written; the clip-building ffmpeg is given its output path
PoolBuildClip(j) ==
  /\ Stage(j) = "frames"
  /\ pool' = [pool EXCEPT ![j].st = "clip", ![j].clip = ClipName(clock)]
  /\ UNCHANGED <<clock, jobVars, callVars, ewVars, overlay>>

\* the clip is built and the frames directory removed; encodeWithOverlay
\* builds the command and run()s it
PoolRunEncoder(j) ==
  /\ Stage(j) = "clip"
  /\ pool' = [pool EXCEPT ![j].st = "encoding", ![j].dir = NoPath]
  /\ UNCHANGED <<clock, jobVars, callVars, ewVars, overlay>>

\* command.on("end"): the clip is unlinked, done is emitted
PoolEncoderEnd(j) ==
  /\ Stage(j) = "encoding"
  /\ pool' = [pool EXCEPT ![j].st = "ended", ![j].clip = NoPath]
  /\ UNCHANGED <<clock, jobVars, callVars, ewVars, overlay>>

PoolNext ==
  \/ Tick
  \/ \E j \in JobIds :
       \/ Submit(j) \/ PoolMkdir(j) \/ PoolBuildClip(j)
       \/ PoolRunEncoder(j) \/ PoolEncoderEnd(j)

PoolSpec == PoolInit /\ [][PoolNext]_vars

\* =================================================================
\* The progress listener of the encode step, on any encoder report
\* =================================================================
\* progress objects of fluent-ffmpeg: percent missing, or a whole percent
ProgressReports ==
  {[has |-> FALSE, v |-> 0]} \cup [has : {TRUE}, v : 0..MaxRawPercent]

ProgressInit ==
  /\ ParkedJob /\ PoolIdle /\ WorkerIdle /\ OverlayIdle
  /\ call \in {<<r>> : r \in ProgressReports}
  /\ ret = <<>>

\* command.on("progress") with stopped false: the percent it emits
ReportProgress ==
  /\ call # <<>> /\ ret = <<>>
  /\ ret' = <<ReportedPercent(call[1])>>
  /\ UNCHANGED <<call, jobVars, poolVars, ewVars, overlay>>

ProgressNext == ReportProgress

ProgressSpec == ProgressInit /\ [][ProgressNext]_vars

\* =================================================================
\* The track lookups of the overlays, on any track and query time
\* =================================================================
\* a sample's timestamp is missing (undefined) or a number of ticks since
\* the epoch (0: a <when> of 1970-01-01T00:00:00Z)
NoStamp == -1
Stamps == {NoStamp} \cup 0..MaxStamp
Positions == {0, 1}
Samples == [ts : Stamps, pos : Positions]

HasStamp(c) == c.ts # NoStamp
\* `c.timestamp &&`, `!c.timestamp`
Truthy(ts) == ts # NoStamp /\ ts # 0

AllStamped(t) == \A i \in 1..Len(t) : HasStamp(t[i])
AllTruthy(t) == \A i \in 1..Len(t) : Truthy(t[i].ts)
Ascending(t) == \A i \in 1..(Len(t) - 1) : t[i].ts <= t[i + 1].ts

\* kmlCoords after start() sorted them: ascending when the comparator is
\* consistent (every timestamp truthy), in any order otherwise
Tracks ==
  {t \in UNION {[1..n -> Samples] : n \in 1..MaxSamples} :
     AllTruthy(t) => Ascending(t)}

\* videoTimeSeconds + kmlOffsetSeconds, in ticks
Queries == (-1)..MaxQuery
SpeedUnits == {"kmh", "ms"}

TrackInit ==
  /\ ParkedJob /\ PoolIdle /\ WorkerIdle /\ OverlayIdle
  /\ call \in {<<[track |-> t, q |-> q, unit |-> u]>> :
                 t \in Tracks, q \in Queries, u \in SpeedUnits}
  /\ ret = <<>>

Abs(x) == IF x < 0 THEN -x ELSE x

Undefined == [defined |-> FALSE, idx |-> 0, num |-> 0, den |-> 1]
Coord(i) == [defined |-> TRUE, idx |-> i, num |-> 0, den |-> 1]
\* a speed num / den measured between sample i and the next one
Speed(i, num, den) == [defined |-> TRUE, idx |-> i, num |-> num, den |-> den]

\* kmlCoords.find(c => c.timestamp != null), as an index (0: none)
FirstStamped(t) ==
  IF \E i \in 1..Len(t) : HasStamp(t[i])
  THEN CHOOSE i \in 1..Len(t) :
         HasStamp(t[i]) /\ \A j \in 1..(i - 1) : ~HasStamp(t[j])
  ELSE 0

\* kmlCoords.find(c => c.timestamp), as an index (0: none)
FirstTruthy(t) ==
  IF \E i \in 1..Len(t) : Truthy(t[i].ts)
  THEN CHOOSE i \in 1..Len(t) :
         Truthy(t[i].ts) /\ \A j \in 1..(i - 1) : ~Truthy(t[j].ts)
  ELSE 0

\* kmlStartTime + adjustedTime * 1000
TargetTimestamp(kmlStartTime, q) == kmlStartTime + q

\* the "find closest coordinate" loop from sample i on; best = 0 stands
\* for minDiff = Infinity
RECURSIVE ClosestFrom(_, _, _, _, _)
ClosestFrom(t, target, i, best, minDiff) ==
  IF i > Len(t) THEN best
  ELSE IF ~HasStamp(t[i]) THEN ClosestFrom(t, target, i + 1, best, minDiff)
  ELSE LET diff == Abs(t[i].ts - target)
       IN  IF best = 0 \/ diff < minDiff
           THEN ClosestFrom(t, target, i + 1, i, diff)
           ELSE ClosestFrom(t, target, i + 1, best, minDiff)

GetCoordAtTime(t, q) ==
  IF Len(t) = 0 \/ FirstStamped(t) = 0 THEN Undefined
  ELSE Coord(ClosestFrom(t, TargetTimestamp(t[FirstStamped(t)].ts, q),
                         1, 0, 0))

\* `for (i = length - 1; i >= 0; i--) if (ts && ts <= target) ...break`,
\* prevIdx staying at the first sample when no sample matches
RECURSIVE PrevIdxFrom(_, _, _)
PrevIdxFrom(t, target, i) ==
  IF i < 1 THEN 1
  ELSE IF Truthy(t[i].ts) /\ t[i].ts <= target THEN i
  ELSE PrevIdxFrom(t, target, i - 1)

\* haversineKm of two samples: their distance on a line
DistanceKm(a, b) == Abs(b.pos - a.pos)

\* (a time difference taken as the earlier minus the later timestamp)
TimeDiffMsReversed(prevNode, nextNode) == (prevNode.ts - nextNode.ts) * TickMs

\* nextNode.timestamp - prevNode.timestamp
TimeDiffMs(prevNode, nextNode) == (nextNode.ts - prevNode.ts) * TickMs

\* (distanceKm / timeDiffSeconds) * 3600, and / 3.6 for speedUnit "ms",
\* as a fraction
SpeedBetween(i, prevNode, nextNode, unit) ==
  LET num == DistanceKm(prevNode, nextNode) * 1000 * 3600
      den == TimeDiffMs(prevNode, nextNode)
  IN  IF unit = "ms" THEN Speed(i, num * 10, den * 36) ELSE Speed(i, num, den)

GetSpeedFromWorkspaceKml(t, q, unit) ==
  IF Len(t) = 0 \/ FirstTruthy(t) = 0 THEN Undefined
  ELSE LET target == TargetTimestamp(t[FirstTruthy(t)].ts, q)
           prevIdx == PrevIdxFrom(t, target, Len(t))
       IN  IF ~Truthy(t[prevIdx].ts) THEN Undefined
           ELSE IF prevIdx < Len(t) /\ Truthy(t[prevIdx + 1].ts) /\
                   TimeDiffMs(t[prevIdx], t[prevIdx + 1]) > 0
           THEN SpeedBetween(prevIdx, t[prevIdx], t[prevIdx + 1], unit)
           ELSE Undefined

\* computeSpeeds: the speedKmh of point i (the first point has none);
\* speedMs = meters / seconds, speedKmh = speedMs * 3.6
PointSpeedKmh(points, i) ==
  IF i = 1 THEN Undefined
  ELSE LET prev == points[i - 1]
           curr == points[i]
           timeDiff == IF TimeDiffMs(prev, curr) >= 0
                       THEN TimeDiffMs(prev, curr) ELSE 0
       IN  IF HasStamp(prev) /\ HasStamp(curr) /\ timeDiff > 0
           THEN Speed(i - 1, DistanceKm(prev, curr) * 1000 * 1000 * 36,
                      timeDiff * 10)
           ELSE Undefined

ComputeSpeeds(points) == [i \in 1..Len(points) |-> PointSpeedKmh(points, i)]

\* getInterpolatedSpeedFromWorkspaceKml: the same steps as
\* getSpeedFromWorkspaceKml, the speed being constant between two samples
GetInterpolatedSpeedFromWorkspaceKml(t, q, unit) ==
  IF Len(t) = 0 \/ FirstTruthy(t) = 0 THEN Undefined
  ELSE LET target == TargetTimestamp(t[FirstTruthy(t)].ts, q)
           prevIdx == PrevIdxFrom(t, target, Len(t))
       IN  IF ~Truthy(t[prevIdx].ts) THEN Undefined
           ELSE IF prevIdx < Len(t) /\ Truthy(t[prevIdx + 1].ts) /\
                   TimeDiffMs(t[prevIdx], t[prevIdx + 1]) > 0
           THEN SpeedBetween(prevIdx, t[prevIdx], t[prevIdx + 1], unit)
           ELSE Undefined

\* speedMs of a point whose speedKmh is s (speedKmh = speedMs * 3.6)
PointSpeedMs(s) ==
  IF s.defined THEN Speed(s.idx, s.num * 10, s.den * 36) ELSE Undefined

\* the "find closest point" loop of getSpeedAtTime
ClosestPoint(points, target, i, best, minDiff) ==
  ClosestFrom(points, target, i, best, minDiff)

\* getSpeedAtTime on the points of a parsed KML file (kmlCoords empty):
\* the speed computeSpeeds gave the point closest to the target time
GetSpeedAtTime(points, q, unit) ==
  IF Len(points) = 0 \/ FirstStamped(points) = 0 THEN Undefined
  ELSE LET target == TargetTimestamp(points[FirstStamped(points)].ts, q)
           closest == ClosestPoint(points, target, 1, 0, 0)
       IN  IF closest = 0 THEN Undefined
           ELSE IF unit = "ms"
           THEN PointSpeedMs(ComputeSpeeds(points)[closest])
           ELSE ComputeSpeeds(points)[closest]

\* the instant a lookup translates the video time to, and the sample whose
\* timestamp it takes as the start of the track
Instant(i, target) == [defined |-> TRUE, idx |-> i, num |-> target, den |-> 1]

\* getInterpolatedSpeedFromWorkspaceKml: kmlStartTime, targetTimestamp
GaugeInstant(t, q) ==
  IF Len(t) = 0 \/ FirstTruthy(t) = 0 THEN Undefined
  ELSE Instant(FirstTruthy(t), TargetTimestamp(t[FirstTruthy(t)].ts, q))

\* getCoordAtTime: kmlStartTime, targetTimestamp
CoordInstant(t, q) ==
  IF Len(t) = 0 \/ FirstStamped(t) = 0 THEN Undefined
  ELSE Instant(FirstStamped(t), TargetTimestamp(t[FirstStamped(t)].ts, q))

\* one generated frame asks for the sample at its time
CallGetCoordAtTime ==
  /\ call # <<>> /\ ret = <<>>
  /\ ret' = <<[fn |-> "coord",
               out |-> <<GetCoordAtTime(call[1].track, call[1].q)>>]>>
  /\ UNCHANGED <<call, jobVars, poolVars, ewVars, overlay>>

\* ... and for the speed at its time
CallGetSpeed ==
  /\ call # <<>> /\ ret = <<>>
  /\ ret' = <<[fn |-> "speed",
               out |-> <<GetSpeedFromWorkspaceKml(call[1].track, call[1].q,
                                                  call[1].unit)>>]>>
  /\ UNCHANGED <<call, jobVars, poolVars, ewVars, overlay>>

\* loadAndProcess computes the speeds of a parsed KML file's points
CallComputeSpeeds ==
  /\ call # <<>> /\ ret = <<>>
  /\ ret' = <<[fn |-> "speeds", out |-> ComputeSpeeds(call[1].track)]>>
  /\ UNCHANGED <<call, jobVars, poolVars, ewVars, overlay>>

\* the gauge asks getInterpolatedSpeed for the speed at a frame's time,
\* the track being the job's kmlCoords
CallGetInterpolatedSpeed ==
  /\ call # <<>> /\ ret = <<>>
  /\ ret' = <<[fn |-> "gauge",
               out |-> <<GetInterpolatedSpeedFromWorkspaceKml(
                           call[1].track, call[1].q, call[1].unit)>>]>>
  /\ UNCHANGED <<call, jobVars, poolVars, ewVars, overlay>>

\* ... the track being the points of a parsed KML file
CallGetSpeedAtTime ==
  /\ call # <<>> /\ ret = <<>>
  /\ ret' = <<[fn |-> "pointSpeed",
               out |-> <<GetSpeedAtTime(call[1].track, call[1].q,
                                        call[1].unit)>>]>>
  /\ UNCHANGED <<call, jobVars, poolVars, ewVars, overlay>>

\* the frame of one video time in the three layers: the gauge asks
\* getInterpolatedSpeed, the info panel and the mini-map getCoordAtTime
CallFrameLookups ==
  /\ call # <<>> /\ ret = <<>>
  /\ ret' = <<[fn |-> "frame",
               out |-> <<GaugeInstant(call[1].track, call[1].q),
                         CoordInstant(call[1].track, call[1].q),
                         CoordInstant(call[1].track, call[1].q)>>]>>
  /\ UNCHANGED <<call, jobVars, poolVars, ewVars, overlay>>

TrackNext ==
  \/ CallGetCoordAtTime \/ CallGetSpeed \/ CallComputeSpeeds
  \/ CallGetInterpolatedSpeed \/ CallGetSpeedAtTime
  \/ CallFrameLookups

TrackSpec == TrackInit /\ [][TrackNext]_vars

\* =================================================================
\* The two KML parsers, on any <when> and coordinate lists of one track
\* =================================================================
\* a <when> text: a date (ticks since the epoch) or one Date.parse rejects
InvalidWhen == -2
WhenTexts == {InvalidWhen} \cup 0..MaxStamp

SeqsUpTo(S, n) == UNION {[1..k -> S] : k \in 0..n}

ParseInit ==
  /\ ParkedJob /\ PoolIdle /\ WorkerIdle /\ OverlayIdle
  /\ call \in {<<[whens |-> w, coords |-> c]>> :
                 w \in SeqsUpTo(WhenTexts, MaxWhens),
                 c \in SeqsUpTo(Positions, MaxCoords)}
  /\ ret = <<>>

\* times the parsers give a coordinate: none, a number num / den of ticks,
\* or the time of an Invalid Date
NoTime == [kind |-> "none", num |-> 0, den |-> 1]
Time(num, den) == [kind |-> "time", num |-> num, den |-> den]
NaNTime == [kind |-> "nan", num |-> 0, den |-> 1]

\* for (const w of whens) { t = Date.parse(w); if (!isNaN(t)) push(t) }
Timestamps(whens) == SelectSeq(whens, LAMBDA w : w # InvalidWhen)

MinOf(ts) == CHOOSE m \in {ts[i] : i \in 1..Len(ts)} :
               \A i \in 1..Len(ts) : m <= ts[i]
MaxOf(ts) == CHOOSE m \in {ts[i] : i \in 1..Len(ts)} :
               \A i \in 1..Len(ts) : m >= ts[i]

\* (an interpolation that spreads the coordinates over n steps, not n - 1)
InterpolatedOverCount(start, duration, i, n) ==
  Time(start * n + i * duration, n)

\* start + fraction * duration with fraction = n > 1 ? i / (n - 1) : 0,
\* for the coordinate of index i (from 0) of n
Interpolated(start, duration, i, n) ==
  IF n > 1 THEN Time(start * (n - 1) + i * duration, n - 1)
  ELSE Time(start, 1)

\* workspace parseKml, "try to match timestamps to coordinates": the
\* coordinates with their timestamps, and whether the mismatch warning
\* was written
PairTimestamps(whens, coords) ==
  LET timestamps == Timestamps(whens)
      n == Len(coords)
  IN  IF Len(timestamps) > 0 /\ n > 0
      THEN IF Len(timestamps) = n
           THEN [coords |-> [i \in 1..n |->
                              [pos |-> coords[i],
                               time |-> Time(timestamps[i], 1)]],
                 warned |-> FALSE]
           ELSE [coords |-> [i \in 1..n |->
                              [pos |-> coords[i],
                               time |-> Interpolated(
                                          MinOf(timestamps),
                                          MaxOf(timestamps) -
                                            MinOf(timestamps),
                                          i - 1, n)]],
                 warned |-> TRUE]
      ELSE [coords |-> [i \in 1..n |-> [pos |-> coords[i], time |-> NoTime]],
            warned |-> FALSE]

\* videoOverlay parseKml on a gx:Track: coordinate idx gets
\* new Date(whenArray[idx]) when there is such a <when>
PairByIndex(whens, coords) ==
  [coords |-> [i \in 1..Len(coords) |->
                [pos |-> coords[i],
                 time |-> IF i > Len(whens) THEN NoTime
                          ELSE IF whens[i] = InvalidWhen THEN NaNTime
                          ELSE Time(whens[i], 1)]],
   warned |-> FALSE]

\* the workspace parses an uploaded KML file into its kmlSummary
ParseWorkspaceKml ==
  /\ call # <<>> /\ ret = <<>>
  /\ ret' = <<[fn |-> "workspace",
               out |-> <<PairTimestamps(call[1].whens, call[1].coords)>>]>>
  /\ UNCHANGED <<call, jobVars, poolVars, ewVars, overlay>>

\* the same file parsed both ways: by the workspace (pre-parsed summary)
\* and by loadAndProcess (raw file)
ParseBothWays ==
  /\ call # <<>> /\ ret = <<>>
  /\ ret' = <<[fn |-> "both",
               out |-> <<PairTimestamps(call[1].whens, call[1].coords),
                         PairByIndex(call[1].whens, call[1].coords)>>]>>
  /\ UNCHANGED <<call, jobVars, poolVars, ewVars, overlay>>

ParseNext == ParseWorkspaceKml \/ ParseBothWays

ParseSpec == ParseInit /\ [][ParseNext]_vars

\* =================================================================
\* GaugeSpec: the needle of the speed gauge, as drawn by
\* generateSpeedometerImage and by each frame of generateSpeedometerVideo
\* =================================================================
MaxGaugeSpeed == 70
DefaultMaxSpeed == 60
StartAngle == -120
EndAngle == 120

\* a JavaScript value of a speed: a number num / den, NaN or undefined
Num(num, den) == [kind |-> "num", num |-> num, den |-> den]
NaN == [kind |-> "nan", num |-> 0, den |-> 1]
NoSpeed == [kind |-> "undefined", num |-> 0, den |-> 1]

GaugeSpeeds ==
  {Num(n, 1) : n \in (-MaxGaugeSpeed)..MaxGaugeSpeed} \cup {NaN, NoSpeed}

\* options.maxSpeed: 0 stands for an option that is not given
GaugeMaxSpeeds == {0, 30, DefaultMaxSpeed}

GaugeInit ==
  /\ ParkedJob /\ PoolIdle /\ WorkerIdle /\ OverlayIdle
  /\ call \in {<<[speed |-> s, maxSpeed |-> m]>> :
                 s \in GaugeSpeeds, m \in GaugeMaxSpeeds}
  /\ ret = <<>>

\* options.maxSpeed || 60
MaxSpeedOf(m) == IF m = 0 THEN DefaultMaxSpeed ELSE m

\* speed || 0: undefined, NaN and 0 are falsy
OrZero(s) == IF s.kind = "num" /\ s.num # 0 THEN s ELSE Num(0, 1)

\* speed / maxSpeed for a positive maxSpeed: undefined / m and NaN / m are NaN
Over(s, m) == IF s.kind = "num" THEN Num(s.num, s.den * m) ELSE NaN

\* Math.max(0, x) and Math.min(1, x): NaN if x is NaN
MathMax0(x) ==
  IF x.kind # "num" THEN NaN ELSE IF x.num < 0 THEN Num(0, 1) ELSE x

MathMin1(x) ==
  IF x.kind # "num" THEN NaN ELSE IF x.num > x.den THEN Num(1, 1) ELSE x

\* speedPercent = Math.min(1, Math.max(0, speed / maxSpeed))
SpeedPercent(s, m) == MathMin1(MathMax0(Over(s, m)))

\* startAngle + (endAngle - startAngle) * speedPercent, in degrees
NeedleAngle(p) ==
  IF p.kind # "num" THEN NaN
  ELSE Num(StartAngle * p.den + (EndAngle - StartAngle) * p.num, p.den)

\* generateSpeedometerImage(speed, options)
GenerateSpeedometerImage ==
  /\ call # <<>> /\ ret = <<>>
  /\ LET p == SpeedPercent(call[1].speed, MaxSpeedOf(call[1].maxSpeed))
     IN  ret' = <<[fn |-> "image", max |-> MaxSpeedOf(call[1].maxSpeed),
                   out |-> <<p, NeedleAngle(p)>>]>>
  /\ UNCHANGED <<call, jobVars, poolVars, ewVars, overlay>>

\* one frame of generateSpeedometerVideo: speedKmh = speed || 0, scale 60
SpeedometerFrame ==
  /\ call # <<>> /\ ret = <<>>
  /\ LET p == SpeedPercent(OrZero(call[1].speed), DefaultMaxSpeed)
     IN  ret' = <<[fn |-> "gaugeFrame", max |-> DefaultMaxSpeed,
                   out |-> <<p, NeedleAngle(p)>>]>>
  /\ UNCHANGED <<call, jobVars, poolVars, ewVars, overlay>>

GaugeNext == GenerateSpeedometerImage \/ SpeedometerFrame

GaugeSpec == GaugeInit /\ [][GaugeNext]_vars

\* =================================================================
\* PanelSpec: the frames of the info panel layer (generateInfoOverlayVideo)
\* and the layer's place in encodeWithOverlay
\* =================================================================
MaxTenths == 15
MaxPanelSamples == 2
MaxPanelStamp == 2
FramesPerSecond == 5
Padding == 12
LineHeight == 22

NoAlt == -1
\* a sample of kmlCoords with its optional altitude (metres)
PanelSamples == [ts : {NoStamp} \cup 1..MaxPanelStamp, pos : {0},
                 alt : {NoAlt, 0}]

\* kmlCoords; the empty track stands for a job started from kmlPath, which
\* leaves kmlCoords unset
PanelTracks ==
  {t \in UNION {[1..n -> PanelSamples] : n \in 0..MaxPanelSamples} :
     AllTruthy(t) => Ascending(t)}

PanelOptions ==
  [showAltitude : BOOLEAN, showCoordinates : BOOLEAN, showTime : BOOLEAN]

\* videoDuration (ffprobe's format.duration) in tenths of a second
PanelInit ==
  /\ ParkedJob /\ PoolIdle /\ WorkerIdle /\ OverlayIdle
  /\ call \in {<<[options |-> o, track |-> t, tenths |-> d]>> :
                 o \in PanelOptions, t \in PanelTracks, d \in 1..MaxTenths}
  /\ ret = <<>>

\* duration = Math.ceil(this.videoDuration), in seconds
CeilSeconds(tenths) == (tenths + 9) \div 10

\* for (sec < duration) for (subFrame < fps): the number of frames written
FrameCount(tenths) == CeilSeconds(tenths) * FramesPerSecond

\* timeSeconds = sec + subFrame / fps of frame k (from 0), in ticks
TimeOfFrame(k) ==
  LET sec == k \div FramesPerSecond
      subFrame == k % FramesPerSecond
  IN  sec * FramesPerSecond + subFrame

AnyAlt(c) == TRUE

\* coord.alt !== undefined
HasAlt(c) == c.alt # NoAlt

\* the lines drawn on the frame at tick q
PanelLines(o, t, q) ==
  LET coord == GetCoordAtTime(t, q)
  IN  (IF o.showAltitude /\ coord.defined /\ HasAlt(t[coord.idx])
       THEN <<"Altitude">> ELSE <<>>)
      \o (IF o.showCoordinates /\ coord.defined
          THEN <<"Lat", "Lon">> ELSE <<>>)
      \o (IF o.showTime /\ coord.defined /\ HasStamp(t[coord.idx])
          THEN <<"Heure">> ELSE <<>>)

\* let lineCount = 0; if (showAltitude) lineCount++; ...
LineCount(o) ==
  (IF o.showAltitude THEN 1 ELSE 0) + (IF o.showCoordinates THEN 2 ELSE 0)
    + (IF o.showTime THEN 1 ELSE 0)

PanelHeight(o) == Padding * 2 + LineCount(o) * LineHeight

NoneEnabled(o) == ~o.showAltitude /\ ~o.showCoordinates /\ ~o.showTime

\* generateInfoOverlayVideo(): throws when no option is enabled, otherwise
\* writes one frame per instant
InfoOverlayVideo(o, t, tenths) ==
  IF NoneEnabled(o)
  THEN [fn |-> "panel", error |-> "No overlay options enabled",
        height |-> 0, frames |-> <<>>]
  ELSE [fn |-> "panel", error |-> "",
        height |-> PanelHeight(o),
        frames |-> [k \in 1..FrameCount(tenths) |->
                      [at |-> TimeOfFrame(k - 1),
                       lines |-> PanelLines(o, t, TimeOfFrame(k - 1))]]]

GenerateInfoOverlayVideo ==
  /\ call # <<>> /\ ret = <<>>
  /\ ret' = <<InfoOverlayVideo(call[1].options, call[1].track,
                               call[1].tenths)>>
  /\ UNCHANGED <<call, jobVars, poolVars, ewVars, overlay>>

\* encodeWithOverlay: if (hasInfoOverlay) generateInfoOverlayVideo()
EncodeInfoLayer ==
  /\ call # <<>> /\ ret = <<>>
  /\ ret' = IF ~NoneEnabled(call[1].options)
            THEN <<[InfoOverlayVideo(call[1].options, call[1].track,
                                     call[1].tenths)
                     EXCEPT !.fn = "layer"]>>
            ELSE <<[fn |-> "noLayer", error |-> "", height |-> 0,
                    frames |-> <<>>]>>
  /\ UNCHANGED <<call, jobVars, poolVars, ewVars, overlay>>

PanelNext == GenerateInfoOverlayVideo \/ EncodeInfoLayer

PanelSpec == PanelInit /\ [][PanelNext]_vars

\* =================================================================
\* FanoutSpec: one job without overlay layers whose event stream is
\* followed by two SSE clients that connect and disconnect at any time;
\* the job runs to its end without a DELETE request
\* =================================================================
FanoutInit ==
  /\ InitJob([showSpeed : {FALSE}, hasInfoOverlay : {FALSE},
              showMap : {FALSE}], Observers)
  /\ PoolIdle /\ WorkerIdle /\ OverlayIdle /\ NoCall

\* req.on("close"): job.emitter.off("event", wrappedListener)
CloseObserver(o) ==
  /\ Quiet /\ obsState[o] = "attached"
  /\ obsState' = [obsState EXCEPT ![o] = "closed"]
  /\ UNCHANGED <<sideVars, cmdVars, opts, tmpVars, voVars, wStopped, wEncoder,
                 wQueue, regVars, jobEvents, received, attachedAt, metaVars,
                 reqVars>>

FanoutNext ==
  \/ OnWorkerLog \/ OnWorkerProgress \/ OnWorkerDone \/ OnWorkerError
  \/ MetaApply \/ TimerFire
  \/ ProbeOk \/ ProbeFail
  \/ EncoderProgress \/ EncoderStderr \/ EncoderExit
  \/ EncoderEnd \/ EncoderError
  \/ \E o \in Observers : AttachObserver(o)
  \/ \E o \in Observers : CloseObserver(o)

FanoutSpec == FanoutInit /\ [][FanoutNext]_vars

\* =================================================================
\* WorkerSpec: one EncodeWorker (workers/encodeWorker.ts), started and
\* stopped at any time, with the processes it spawned
\* =================================================================
WorkerInit ==
  /\ ParkedJob /\ PoolIdle /\ OverlayIdle /\ NoCall
  /\ ew \in {NewWorker(s) : s \in BOOLEAN}
  /\ ewProcs = NoProcs
  /\ ewEmitted = <<>>

EwProgress(pct) == [type |-> "progress", percent |-> pct, success |-> FALSE]
EwDone(success) == [type |-> "done", percent |-> NoPercent, success |-> success]
EwError == [type |-> "error", percent |-> NoPercent, success |-> FALSE]

Max(a, b) == IF a > b THEN a ELSE b

\* the helpers below take and return the worker with the events emitted
\* so far in the running callback: [w |-> worker, out |-> events]
AcceptsAny(pct, last) == TRUE

\* if (pct > this.lastPercent || pct === 100)
Accepts(pct, last) == pct > last \/ pct = 100

EmitProgress(st, percent) ==
  LET pct == Max(0, Min(100, percent))
  IN  IF Accepts(pct, st.w.lastPercent)
      THEN [w |-> [st.w EXCEPT !.lastPercent = pct],
            out |-> Append(st.out, EwProgress(pct))]
      ELSE st

EmitDone(st, success) ==
  LET forced == IF st.w.lastPercent < 100
                THEN [w |-> [st.w EXCEPT !.lastPercent = 100],
                      out |-> Append(st.out, EwProgress(100))]
                ELSE st
  IN  [forced EXCEPT !.out = Append(@, EwDone(success))]

EmitError(st) ==
  [w |-> [st.w EXCEPT !.status = "error"], out |-> Append(st.out, EwError)]

\* a chunk of process output: the digits before a "%", an ffmpeg-like
\* activity line, or other text
Chunks ==
  {[kind |-> "percent", n |-> n] : n \in {0, 50, 100, 150}}
    \cup {[kind |-> "activity", n |-> 0], [kind |-> "text", n |-> 0]}

TryParseProgressFromChunk(st, chunk) ==
  IF chunk.kind = "percent"
  THEN EmitProgress(st, Max(0, Min(100, chunk.n)))
  ELSE IF chunk.kind = "activity"
  THEN EmitProgress(st, Min(st.w.lastPercent + 2, 98))
  ELSE st

Spawned == {p \in ProcIds : ewProcs[p] # "none"}

\* start(); spawn() either returns a new process or throws
EwStart ==
  /\ UNCHANGED <<jobVars, poolVars, callVars, overlay>>
  /\ IF ew.status = "running"
     THEN UNCHANGED <<ew, ewProcs, ewEmitted>>
     ELSE LET w == [ew EXCEPT !.status = "running", !.lastPercent = 0,
                              !.simStep = 0]
          IN  IF ew.simulate
              THEN /\ ew' = [w EXCEPT !.simIntervalHandle = TRUE]
                   /\ ewEmitted' = <<>>
                   /\ UNCHANGED ewProcs
              ELSE \/ /\ Spawned # ProcIds
                      /\ LET p == Cardinality(Spawned) + 1
                         IN  /\ ew' = [w EXCEPT !.proc = p]
                             /\ ewProcs' = [ewProcs EXCEPT ![p] = "alive"]
                      /\ ewEmitted' = <<>>
                   \/ /\ ew' = EmitError([w |-> w, out |-> <<>>]).w
                      /\ ewEmitted' = EmitError([w |-> w, out |-> <<>>]).out
                      /\ UNCHANGED ewProcs

\* this.proc.kill(): the process ends later, with its close notification
Kill(state) == IF state = "alive" THEN "killed" ELSE state

EwStop ==
  /\ UNCHANGED <<jobVars, poolVars, callVars, overlay>>
  /\ LET w == [ew EXCEPT !.proc = 0, !.simIntervalHandle = FALSE]
         st == IF ew.status = "running"
               THEN EmitDone([w |-> [w EXCEPT !.status = "done"],
                              out |-> ewEmitted], FALSE)
               ELSE [w |-> w, out |-> ewEmitted]
     IN  /\ ew' = st.w
         /\ ewEmitted' = st.out
         /\ ewProcs' = IF ew.proc # 0
                       THEN [ewProcs EXCEPT ![ew.proc] = Kill(@)]
                       ELSE ewProcs

\* proc.stdout / proc.stderr "data"
EwData(p, chunk) ==
  /\ ewProcs[p] \in {"alive", "killed"}
  /\ Len(ewEmitted) < MaxEmitted
  /\ LET st == TryParseProgressFromChunk([w |-> ew, out |-> ewEmitted], chunk)
     IN  ew' = st.w /\ ewEmitted' = st.out
  /\ UNCHANGED <<ewProcs, jobVars, poolVars, callVars, overlay>>

\* proc "close" with exit code 0 (success |-> TRUE) or another code / null
EwClose(p, success) ==
  /\ ewProcs[p] \in {"alive", "killed", "failed"}
  /\ success => ewProcs[p] = "alive"
  /\ LET st == EmitDone([w |-> [ew EXCEPT !.proc = 0, !.status = "done"],
                         out |-> ewEmitted], success)
     IN  ew' = st.w /\ ewEmitted' = st.out
  /\ ewProcs' = [ewProcs EXCEPT ![p] = "closed"]
  /\ UNCHANGED <<jobVars, poolVars, callVars, overlay>>

\* proc "error": the process could not be spawned
EwProcError(p) ==
  /\ ewProcs[p] = "alive"
  /\ LET st == EmitError([w |-> [ew EXCEPT !.proc = 0, !.status = "error"],
                          out |-> ewEmitted])
     IN  ew' = st.w /\ ewEmitted' = st.out
  /\ ewProcs' = [ewProcs EXCEPT ![p] = "failed"]
  /\ UNCHANGED <<jobVars, poolVars, callVars, overlay>>

\* Math.min(100, Math.round((simStep / steps) * 100))
SimPercent(step, steps) == Min(100, (2 * step * 100 + steps) \div (2 * steps))

\* the setInterval callback of startSimulated
EwSimTick ==
  /\ ew.simIntervalHandle
  /\ LET step == ew.simStep + 1
         percent == SimPercent(step, MaxSimSteps)
         st == EmitProgress([w |-> [ew EXCEPT !.simStep = step],
                             out |-> ewEmitted], percent)
         fin == IF percent >= 100 \/ step >= MaxSimSteps
                THEN EmitDone([st EXCEPT !.w.simIntervalHandle = FALSE,
                                         !.w.status = "done"], TRUE)
                ELSE st
     IN  ew' = fin.w /\ ewEmitted' = fin.out
  /\ UNCHANGED <<ewProcs, jobVars, poolVars, callVars, overlay>>

WorkerNext ==
  \/ EwStart \/ EwStop \/ EwSimTick
  \/ \E p \in ProcIds : \E chunk \in Chunks : EwData(p, chunk)
  \/ \E p \in ProcIds : \E success \in BOOLEAN : EwClose(p, success)
  \/ \E p \in ProcIds : EwProcError(p)

WorkerSpec == WorkerInit /\ [][WorkerNext]_vars

\* =================================================================
\* RaceSpec: one job without overlay layers and without clients, with the
\* reading and the writing of meta.json by setVideoEncodeStatus as
\* separate steps (each is awaited, so other callbacks run in between)
\* =================================================================
RaceInit ==
  /\ InitJob([showSpeed : {FALSE}, hasInfoOverlay : {FALSE},
              showMap : {FALSE}], {})
  /\ PoolIdle /\ WorkerIdle /\ OverlayIdle /\ NoCall

MetaRead(op, cur) ==
  [status |-> op.status, cleanup |-> op.cleanup, read |-> cur]

\* const meta = await readMeta(projectName) of one call completes
MetaReadDone ==
  /\ Quiet
  /\ \E op \in BagToSet(metaOps) :
       /\ metaOps' = metaOps (-) SetToBag({op})
       /\ metaReads' = metaReads (+) SetToBag({MetaRead(op, metaStatus)})
  /\ UNCHANGED <<sideVars, cmdVars, opts, tmpVars, voVars, wStopped, wEncoder,
                 wQueue, regVars, jobEvents, obsVars, metaStatus, reqVars>>

\* await writeMeta(projectName, meta) of one call completes: the file now
\* holds what the call read, patched with its update; the listener resumes
MetaWriteDone ==
  /\ Quiet
  /\ \E rd \in BagToSet(metaReads) :
       /\ metaReads' = metaReads (-) SetToBag({rd})
       /\ metaStatus' = Patched(rd.read, rd.status)
       /\ timers' = IF rd.cleanup THEN timers \cup {DoneCleanupMs} ELSE timers
  /\ UNCHANGED <<sideVars, cmdVars, opts, tmpVars, voVars, wStopped, wEncoder,
                 wQueue, jobPresent, jobStatus, jobEvents, obsVars, metaOps,
                 reqVars>>

RaceNext ==
  \/ OnWorkerLog \/ OnWorkerProgress \/ OnWorkerDone \/ OnWorkerError
  \/ MetaReadDone \/ MetaWriteDone \/ TimerFire
  \/ ProbeOk \/ ProbeFail
  \/ EncoderProgress \/ EncoderStderr \/ EncoderExit
  \/ EncoderEnd \/ EncoderError

RaceSpec == RaceInit /\ [][RaceNext]_vars

\* =================================================================
\* CancelSpec: one job with at most the speedometer layer and no client,
\* DELETE requests at any time; every callback that is due runs eventually
\* =================================================================
CancelInit ==
  /\ InitJob([showSpeed : BOOLEAN, hasInfoOverlay : {FALSE},
              showMap : {FALSE}], {})
  /\ PoolIdle /\ WorkerIdle /\ OverlayIdle /\ NoCall

\* the callbacks of the server: Node's event loop runs each one that is due
JobSteps ==
  \/ OnWorkerLog \/ OnWorkerProgress \/ OnWorkerDone \/ OnWorkerError
  \/ MetaApply \/ TimerFire
  \/ ProbeOk \/ ProbeFail
  \/ RenderBegin \/ RenderFrame \/ ClipOk \/ LayerFail
  \/ EncoderProgress \/ EncoderStderr \/ EncoderExit
  \/ EncoderEnd \/ EncoderError

CancelNext == JobSteps \/ DeleteJob

CancelSpec == CancelInit /\ [][CancelNext]_vars /\ WF_vars(JobSteps)

\* =================================================================
\* The client's job state (ui/src/hooks/useJobManager.ts), as a function
\* of the events its EventSource has delivered
\* =================================================================
\* attachJobSSE: the JobState put in jobStates before connecting
NewJobState == [status |-> "running", message |-> ""]

\* onProgress, onLog, onDone, onError
OnClientEvent(s, e) ==
  CASE e.type = "progress" -> [s EXCEPT !.message = e.msg]
    [] e.type = "done" -> [status |-> "done", message |-> "Completed"]
    [] e.type = "error" -> [status |-> "error", message |-> e.msg]
    [] OTHER -> s

RECURSIVE JobStateAfter(_, _)
JobStateAfter(s, evs) ==
  IF evs = <<>> THEN s
  ELSE JobStateAfter(OnClientEvent(s, Head(evs)), Tail(evs))

\* =================================================================
\* StartSpec: start() called several times on one VideoOverlay, a call
\* possibly made while an earlier one is awaiting ffprobe, a layer or the
\* encoder
\* =================================================================
StartInit ==
  /\ ParkedJob /\ PoolIdle /\ WorkerIdle /\ NoCall
  /\ overlay \in {NewOverlay(l) : l \in BOOLEAN}

StartStage(c) == overlay.calls[c]

\* if (this.command)
CommandSet(o) == o.command

\* start() up to its first await: refused with "Encoding already running"
\* if this.command is set; otherwise the input is loaded (synchronously,
\* it may throw) and ffprobe is awaited
VoStart(c) ==
  /\ StartStage(c) = "none"
  /\ \A b \in StartIds : b < c => StartStage(b) # "none"
  /\ \E next \in (IF CommandSet(overlay) THEN {"refused"}
                  ELSE {"probing", "failed"}) :
       overlay' = [overlay EXCEPT !.calls[c] = next]
  /\ UNCHANGED <<jobVars, poolVars, callVars, ewVars>>

\* this.command = ffmpeg(this.options.videoPath); ... this.command.run()
RunCommand(c) == [overlay EXCEPT !.command = TRUE, !.calls[c] = "encoding"]

\* getVideoDuration() resolved: encodeWithOverlay() renders the enabled
\* layers, or builds and runs the command at once when there is none
VoProbed(c) ==
  /\ StartStage(c) = "probing"
  /\ overlay' = IF overlay.layers
                THEN [overlay EXCEPT !.calls[c] = "rendering"]
                ELSE RunCommand(c)
  /\ UNCHANGED <<jobVars, poolVars, callVars, ewVars>>

\* the last layer's clip is ready
VoRendered(c) ==
  /\ StartStage(c) = "rendering"
  /\ overlay' = RunCommand(c)
  /\ UNCHANGED <<jobVars, poolVars, callVars, ewVars>>

\* ffprobe, a layer or the encoder failed: error and done are emitted
VoFailed(c) ==
  /\ StartStage(c) \in {"probing", "rendering", "encoding"}
  /\ overlay' = [overlay EXCEPT !.calls[c] = "failed"]
  /\ UNCHANGED <<jobVars, poolVars, callVars, ewVars>>

\* the encoder ended; this.command stays set
VoEncoded(c) ==
  /\ StartStage(c) = "encoding"
  /\ overlay' = [overlay EXCEPT !.calls[c] = "settled"]
  /\ UNCHANGED <<jobVars, poolVars, callVars, ewVars>>

StartNext ==
  \E c \in StartIds :
    VoStart(c) \/ VoProbed(c) \/ VoRendered(c) \/ VoFailed(c) \/ VoEncoded(c)

StartSpec == StartInit /\ [][StartNext]_vars

\* =================================================================
\* Properties
\* =================================================================
TerminalStatus == {"done", "error"}

EventsOfType(evs, t) == {i \in 1..Len(evs) : evs[i].type = t}
TerminalEvents(evs) == {i \in 1..Len(evs) : IsTerminal(evs[i])}

\* the run is over: start() has settled and every emitted event is handled
RunOver == pc = "settled" /\ Quiet

\* a DELETE request is being handled in this step
DeleteStep == stops' = stops + 1

\* C1: the job's event stream holds exactly one terminal event (done or
\* error) and no event of any kind follows it
C1_OneTerminalEventThenSilence ==
  /\ \A i \in TerminalEvents(jobEvents) : i = Len(jobEvents)
  /\ RunOver => (TerminalEvents(jobEvents) # {})

\* C2: once job.status is done or error, no worker event and no stop
\* request changes it
C2_TerminalStatesAbsorbing ==
  [][(jobStatus \in TerminalStatus) => (jobStatus' = jobStatus)]_vars

\* C3: after a cancellation was requested for the running job, its encoder
\* subprocess is never running
C3_NoEncoderAfterCancel == cancelled => proc # "running"

\* C4: a job cancelled while running gets no error event and is recorded
\* as failed neither in the registry nor in meta.json
C4_CancelledNotFailed ==
  cancelled =>
    /\ EventsOfType(jobEvents, "error") = {}
    /\ jobStatus # "error"
    /\ metaStatus # "error"

\* C5: when the run of a job cancelled while running is over, the worker has
\* emitted a terminal event and every client that was connected at the stop
\* request has received one
C5_StopYieldsTerminalEvent ==
  cancelled /\ RunOver =>
    /\ TerminalEvents(jobEvents) # {}
    /\ \A o \in obsAtStop : TerminalEvents(received[o]) # {}

\* C6: a cancellation request made after an accepted one changes neither the
\* job's status, nor the events emitted, nor the subprocess, nor the registry
C6_SecondCancelChangesNothing ==
  [][(cancelled /\ DeleteStep) =>
       /\ jobStatus' = jobStatus
       /\ wQueue' = wQueue
       /\ proc' = proc
       /\ jobPresent' = jobPresent]_vars

C8_LateObserverGetsTerminalEvent ==
  \A o \in Observers :
    LET before == {i \in TerminalEvents(jobEvents) : i <= attachedAt[o]}
    IN  obsState[o] \in {"attached", "notfound"} /\ before # {} =>
          \E k \in 1..Len(received[o]) : \E i \in before :
            /\ received[o][k].type = jobEvents[i].type
            /\ received[o][k].success = jobEvents[i].success

\* C9: the percents of the job's progress events never decrease
C9_ProgressNonDecreasing ==
  \A i, j \in EventsOfType(jobEvents, "progress") :
    i < j => jobEvents[i].percent <= jobEvents[j].percent

\* C10: a failed step yields exactly one error event
C10_OneErrorPerFailure ==
  Cardinality(EventsOfType(jobEvents, "error")) <= 1

\* C11: when the run of a job is over, none of its temporary overlay clip
\* files and none of its frames directories exists any more
C11_NoTempFilesAfterEnd ==
  RunOver => (clipPaths = {} /\ leftClips = {} /\ framesDirs = {})

\* ------------------------------------------------------ several jobs
Encoding == {j \in JobIds : Stage(j) = "encoding"}

\* C12: at most three jobs have a running encoder subprocess at any time
\* (a job submitted beyond that waits for a running one to end)
C12_AtMostThreeEncoders == Cardinality(Encoding) <= 3

\* C13: two jobs never hold the same frames directory or the same temporary
\* clip path
C13_DistinctTempPaths ==
  \A i, j \in JobIds :
    i # j =>
      /\ (pool[i].dir # NoPath => pool[i].dir # pool[j].dir)
      /\ (pool[i].clip # NoPath => pool[i].clip # pool[j].clip)

\* ------------------------------------------------- overlay layers
Rendering == {"import", "frames", "clip"}

EnabledLayers == SelectSeq(LayerOrder, LAMBDA l : HasClip(l, opts))

\* C14: a step of a job that is rendering a layer does not end the job: the
\* job goes on rendering (this layer or the next one) or starts composing
C14_LayerFailureDoesNotEndJob ==
  [][(pc \in Rendering) => (pc' \in Rendering \cup {"encoding"})]_vars

\* C15: while the encoder subprocess runs, the clip of every enabled layer
\* exists, no layer is being rendered and no frames directory is left
C15_EncoderAfterAllClips ==
  proc = "running" =>
    /\ \A i \in 1..Len(EnabledLayers) : EnabledLayers[i] \in clipPaths
    /\ pc \notin Rendering
    /\ framesDirs = {}

\* the encoder runs in a job with two or more layers
C15_Witness == proc = "running" /\ Len(EnabledLayers) >= 2

\* the anchors named by the specification, as overlay positions
BottomRight == "main_w-overlay_w-10:main_h-overlay_h-10"
BottomLeft == "10:main_h-overlay_h-10"
TopRight == "main_w-overlay_w-10:10"

Anchor(l) ==
  CASE l = "speed" -> BottomRight
    [] l = "info" -> BottomLeft
    [] l = "map" -> TopRight

SuccessEvents == {i \in EventsOfType(jobEvents, "done") : jobEvents[i].success}

\* C17: when the encoder ends successfully and no cancellation was
\* requested, progress 100 and then done{success: true} are emitted; a
\* successful done event directly follows a progress event of 100 percent
\* and no progress event ever comes after it
C17_HundredThenDone ==
  /\ [][(proc = "exitedOk" /\ proc' = "reaped" /\ ~cancelled) =>
          (/\ Len(wQueue') >= 2
           /\ wQueue'[1] = Progress(Pct(100))
           /\ wQueue'[2] = Done(TRUE))]_vars
  /\ [](\A i \in SuccessEvents :
          /\ i > 1
          /\ jobEvents[i - 1] = Progress(Pct(100))
          /\ \A m \in EventsOfType(jobEvents, "progress") : m < i)

\* an encode that was not cancelled has ended with done{success: true}
C17_Witness == RunOver /\ ~cancelled /\ SuccessEvents # {}

\* ------------------------------------------------ encode step progress
\* C18: for an encoder report with a percent p in 0..100 the percent
\* emitted is 20 + (p / 100) * 75 (here in hundredths of a percent)
C18_EncodeProgressMapping ==
  (ret # <<>> /\ call[1].has /\ call[1].v \in 0..100) =>
    ret[1] = (20 * 100) + (call[1].v * 75)

\* a report of 100 percent has been mapped to 95 percent
C18_Witness ==
  /\ ret # <<>> /\ call[1].has
  /\ call[1].v = 100 /\ ret[1] = 9500

\* ------------------------------------------------------ track lookups
Returned(fn) == ret # <<>> /\ ret[1].fn = fn

\* the queried track time of the call
QueriedTime == TargetTimestamp(call[1].track[1].ts, call[1].q)

\* C19: on a track whose samples all have (non-zero) timestamps, for a query
\* time at or after the first sample, the position lookup returns a sample
\* whose timestamp is at most the queried time
C19_PositionNotLater ==
  (/\ Returned("coord")
   /\ AllTruthy(call[1].track)
   /\ call[1].q >= 0) =>
    /\ ret[1].out[1].defined
    /\ call[1].track[ret[1].out[1].idx].ts <= QueriedTime

\* sample i is at or before the time `target`
AtOrBefore(t, target, i) == Truthy(t[i].ts) /\ t[i].ts <= target

\* sample i is the earlier one of the two samples bracketing `target`: the
\* last sample at or before it, or the first sample when there is none
IsPrev(t, target, i) ==
  \/ /\ AtOrBefore(t, target, i)
     /\ \A j \in (i + 1)..Len(t) : ~AtOrBefore(t, target, j)
  \/ /\ i = 1
     /\ \A j \in 1..Len(t) : ~AtOrBefore(t, target, j)

NonNegative(o) == o.num >= 0 /\ o.den > 0

\* C20: a speed that is returned is a non-negative distance divided by a
\* positive duration, the time from an earlier to a later sample; the speed
\* lookup returns undefined when the sample after the bracketing one is not
\* later than it, and computeSpeeds gives a point no speed when it is not
\* later than the point before it
C20_SpeedUndefinedOrNonNegative ==
  LET t == call[1].track
  IN  /\ Returned("speed") =>
           LET o == ret[1].out[1]
               target == TargetTimestamp(t[FirstTruthy(t)].ts, call[1].q)
           IN  /\ o.defined =>
                    /\ NonNegative(o)
                    /\ o.idx < Len(t)
                    /\ t[o.idx].ts < t[o.idx + 1].ts
               /\ FirstTruthy(t) # 0 =>
                    \A i \in 1..(Len(t) - 1) :
                      (IsPrev(t, target, i) /\ t[i + 1].ts <= t[i].ts) =>
                        ~o.defined
      /\ Returned("speeds") =>
           \A i \in 1..Len(t) :
             /\ ret[1].out[i].defined => NonNegative(ret[1].out[i])
             /\ (i > 1 /\ t[i].ts <= t[i - 1].ts) => ~ret[1].out[i].defined

\* the speed lookup returned undefined for two bracketing samples that
\* both have a timestamp, the second one not later than the first
C20_Witness ==
  /\ Returned("speed") /\ ~ret[1].out[1].defined
  /\ FirstTruthy(call[1].track) # 0
  /\ LET t == call[1].track
         i == PrevIdxFrom(t, TargetTimestamp(t[FirstTruthy(t)].ts, call[1].q),
                          Len(t))
     IN  /\ i < Len(t)
         /\ Truthy(t[i].ts) /\ Truthy(t[i + 1].ts)
         /\ t[i + 1].ts <= t[i].ts

Stamped(t) == {i \in 1..Len(t) : HasStamp(t[i])}

\* C21: on a track with two or more timestamped points, every speed lookup
\* (of kmlCoords or of a parsed file's points) returns undefined for a
\* query time at or after the timestamp of the last sample
C21_NoSpeedPastLastSample ==
  LET t == call[1].track
  IN  (/\ Returned("speed") \/ Returned("gauge") \/ Returned("pointSpeed")
       /\ Cardinality(Stamped(t)) >= 2
       /\ \A i \in Stamped(t) :
            t[i].ts <= TargetTimestamp(t[FirstStamped(t)].ts, call[1].q)) =>
        ~ret[1].out[1].defined

\* C22: for one video time and offset the gauge, the info panel and the
\* mini-map take the same sample as the start of the track and translate
\* the video time to the same track timestamp, start + video time + offset
C22_SameInstantInAllLayers ==
  Returned("frame") =>
    /\ ret[1].out[1] = ret[1].out[2]
    /\ ret[1].out[2] = ret[1].out[3]
    /\ \A k \in 1..3 :
         ret[1].out[k].defined =>
           ret[1].out[k].num =
             call[1].track[ret[1].out[k].idx].ts + call[1].q

\* ------------------------------------------------------------ parsers
\* the time a is the number x / y
IsTime(a, x, y) == a.kind = "time" /\ a.num * y = x * a.den
TimeLeq(a, b) == a.num * b.den <= b.num * a.den

\* coordinate k (from 1) of n has the time min + (k-1)/(n-1) * (max - min);
\* the first one has min, the last one max; the times do not decrease
EvenlySpread(cs, min, max) ==
  LET n == Len(cs)
  IN  /\ \A k \in 1..n :
           /\ cs[k].time.kind = "time"
           /\ cs[k].time.num * (n - 1) =
                cs[k].time.den * (min * (n - 1) + (k - 1) * (max - min))
      /\ n > 0 => IsTime(cs[1].time, min, 1) /\ IsTime(cs[n].time, max, 1)
      /\ \A k \in 1..(n - 1) : TimeLeq(cs[k].time, cs[k + 1].time)

PairedByIndex(cs, ts) == \A k \in 1..Len(cs) : IsTime(cs[k].time, ts[k], 1)

SameTime(a, b) ==
  \/ a.kind = "none" /\ b.kind = "none"
  \/ a.kind = "time" /\ b.kind = "time" /\ a.num * b.den = b.num * a.den

\* C24: for a track whose <when> texts are all dates, the raw-file parser
\* and the workspace parser give the coordinates the same timestamps (same
\* pairing, same fallback), so that lookups on either result select the
\* same data
C24_SameTrackOnBothPaths ==
  (Returned("both") /\ Timestamps(call[1].whens) = call[1].whens) =>
    /\ Len(ret[1].out[1].coords) = Len(ret[1].out[2].coords)
    /\ \A k \in 1..Len(ret[1].out[1].coords) :
         /\ ret[1].out[1].coords[k].pos = ret[1].out[2].coords[k].pos
         /\ SameTime(ret[1].out[1].coords[k].time,
                     ret[1].out[2].coords[k].time)

\* ------------------------------------------------------ early failures
Failure(e) == e.type = "error" \/ (e.type = "done" /\ ~e.success)

\* C25: the encoder command is built and run only for a track with at
\* least one coordinate; a failure while a layer is rendered ends the job
\* with a failure event and without an encoder, and a job that has ended
\* never starts one afterwards
C25_FailureBeforeEncoder ==
  /\ [](command => opts.coords > 0)
  /\ [](opts.coords = 0 => (proc = "none" /\ pc \in {"request", "rejected"}))
  /\ [][(pc \in Rendering /\ pc' = "settled") =>
          (/\ ~command' /\ proc' = "none"
           /\ \E i \in 1..Len(wQueue') : Failure(wQueue'[i]))]_vars
  /\ [][(pc \in {"settled", "rejected"}) =>
          (command' = command /\ proc' \in {proc, "killed"})]_vars

\* a request for a workspace without coordinates was refused
C25_Witness == pc = "rejected" /\ opts.coords = 0 /\ ~jobPresent


\* ------------------------------------------------------ the speed gauge
Within(x, lo, hi) ==
  x.kind = "num" /\ lo * x.den <= x.num /\ x.num <= hi * x.den

OnlyAltitude(o) == o.showAltitude /\ ~o.showCoordinates /\ ~o.showTime
NoAltitudes(t) == \A i \in 1..Len(t) : t[i].alt = NoAlt

\* C28: with only the altitude option enabled and a track in which no point
\* has an altitude, the panel is rendered without error and none of its
\* frames has an altitude line
C28_NoAltitudeLine ==
  ((Returned("panel") \/ Returned("layer"))
     /\ OnlyAltitude(call[1].options) /\ NoAltitudes(call[1].track)) =>
    /\ ret[1].error = ""
    /\ Len(ret[1].frames) > 0
    /\ \A k \in 1..Len(ret[1].frames) : ret[1].frames[k].lines = <<>>

C28_Witness ==
  /\ Returned("layer")
  /\ OnlyAltitude(call[1].options) /\ NoAltitudes(call[1].track)
  /\ Len(call[1].track) = MaxPanelSamples /\ AllTruthy(call[1].track)
  /\ Len(ret[1].frames) > FramesPerSecond

\* C29: a layer renders exactly ceil(d * f) frames for a video of duration
\* d and the overlay frame rate f, frame k (from 0) at the instant k / f
C29_FrameCountAndInstants ==
  ((Returned("panel") \/ Returned("layer")) /\ ret[1].error = "") =>
    /\ Len(ret[1].frames) = (call[1].tenths * FramesPerSecond + 9) \div 10
    /\ \A k \in 1..Len(ret[1].frames) : ret[1].frames[k].at = k - 1

\* ------------------------------------------------------ several observers
Replays == {Replay("running"), Replay("done"), Replay("error")}

\* the events the job emitted after position n
EmittedSince(n) == SubSeq(jobEvents, n + 1, Len(jobEvents))

\* the events emitted by one step
NewEvents == SubSeq(jobEvents', Len(jobEvents) + 1, Len(jobEvents'))

\* C30: an attached observer has received, after the state sent on
\* connecting, exactly the events the job emitted since it attached, in
\* emission order; each emission is written to every attached observer,
\* whatever the others do, and a disconnected observer receives no more
C30_EveryObserverEveryEvent ==
  /\ [](\A o \in Observers : obsState[o] = "attached" =>
          \E r \in Replays : received[o] = r \o EmittedSince(attachedAt[o]))
  /\ [][\A o \in Observers :
          /\ (obsState[o] = "attached" /\ obsState'[o] = "attached") =>
               received'[o] = received[o] \o NewEvents
          /\ obsState[o] = "closed" => received'[o] = received[o]]_vars

C30_Witness ==
  /\ obsState["c1"] = "closed" /\ obsState["c2"] = "attached"
  /\ attachedAt["c1"] > 0 /\ attachedAt["c2"] > attachedAt["c1"]
  /\ Len(received["c1"]) > 1
  /\ Len(received["c2"]) > Len(received["c1"])

\* ------------------------------------------------------- EncodeWorker
Ended(e) == e.type \in {"done", "error"}

\* the events of the current run: those emitted up to its first done or
\* error
RunLength ==
  IF \E i \in 1..Len(ewEmitted) : Ended(ewEmitted[i])
  THEN CHOOSE i \in 1..Len(ewEmitted) :
         Ended(ewEmitted[i]) /\ \A j \in 1..(i - 1) : ~Ended(ewEmitted[j])
  ELSE Len(ewEmitted)

\* C31: within one run of the worker the percents of its progress events
\* never decrease
C31_ProgressNeverDecreases ==
  \A i, j \in 1..RunLength :
    (i < j /\ ewEmitted[i].type = "progress"
           /\ ewEmitted[j].type = "progress") =>
      ewEmitted[i].percent <= ewEmitted[j].percent

C31_Witness ==
  /\ ~ew.simulate /\ RunLength = MaxEmitted + 1
  /\ ewEmitted[1].percent = 2 /\ ewEmitted[2].percent = 50
  /\ ewEmitted[MaxEmitted].percent = 100
  /\ ewEmitted[RunLength].type = "done"

Dones == {i \in 1..Len(ewEmitted) : ewEmitted[i].type = "done"}

\* C38: a worker running a real process emits at most one done event after
\* each start(), the close notification of a stopped process included
C38_AtMostOneDone == ~ew.simulate => Cardinality(Dones) <= 1

\* the process of the current run: the one spawned last
CurrentProc == Cardinality(Spawned)

\* C39: while the process of the current run is alive the worker's handle
\* refers to it and the status is running; a close or error notification of
\* an earlier process changes neither the handle nor the status
C39_HandleFollowsProcess ==
  /\ [](\A p \in ProcIds :
          (p = CurrentProc /\ ewProcs[p] = "alive") =>
            (ew.proc = p /\ ew.status = "running"))
  /\ [][\A p \in ProcIds :
          (p < CurrentProc /\ ewProcs[p] # "closed" /\ ewProcs'[p] = "closed")
            => (ew'.proc = ew.proc /\ ew'.status = ew.status)]_vars

\* -------------------------------------------------- the replayed outcome
FailedBefore(n) == \E i \in 1..n : Failure(jobEvents[i])

\* C32: an observer that attaches after the job has emitted error or
\* done{success: false} is not sent done{success: true} on connecting
C32_ReplayAgreesWithOutcome ==
  \A o \in Observers :
    (obsState[o] = "attached" /\ FailedBefore(attachedAt[o])) =>
      ~(/\ received[o] # <<>>
        /\ received[o][1].type = "done"
        /\ received[o][1].success)

\* ------------------------------------------------- the persisted status
NoWritePending == metaOps = EmptyBag /\ metaReads = EmptyBag

\* C33: once the done listener has run and no setVideoEncodeStatus call of
\* the job is in flight, the persisted encodeStatus is done or error
C33_PersistedStatusIsFinal ==
  (EventsOfType(jobEvents, "done") # {} /\ Quiet /\ NoWritePending) =>
    metaStatus \in TerminalStatus

\* C34: after a DELETE request was accepted for a running job, the
\* persisted encodeStatus of the video eventually is no longer running
C34_CancelledStopsBeingRunning == cancelled ~> (metaStatus # "running")

\* --------------------------------------------------- removal of the job
\* C35: when the job is removed from the registry (jobs.delete), none of
\* its overlay layers is being rendered and no encoder process of it runs
C35_RemovedOnlyWhenIdle ==
  [][(jobPresent /\ ~jobPresent') =>
       (pc \notin Rendering /\ proc # "running")]_vars

\* ------------------------------------------------- the client's job state
\* C37: when the run is over and the client has processed every event it
\* was sent, a job that failed (error, or done with success false) has
\* status error in the client's job state, not done / "Completed"
C37_FailedJobShownAsError ==
  \A o \in Observers :
    (/\ RunOver /\ obsState[o] = "attached"
     /\ \E i \in 1..Len(received[o]) : Failure(received[o][i])) =>
      JobStateAfter(NewJobState, received[o]).status = "error"

\* ---------------------------------------------------- concurrent starts
Unfinished == {"probing", "rendering", "encoding"}

\* C36: a start() call made while an earlier call on the same instance is
\* unfinished is refused ("Encoding already running") and begins no run
C36_SecondStartRefused ==
  [][\A c \in StartIds :
       (/\ overlay.calls[c] = "none" /\ overlay'.calls[c] # "none"
        /\ \E b \in StartIds : overlay.calls[b] \in Unfinished)
         => overlay'.calls[c] = "refused"]_vars

====
